---- MODULE Spec2Model ----
\* The habit data model of dijo (src/habit.rs): the Count and Bit habits, the
\* operations of the Habit trait, the dispatch of the HabitWrapper trait and
\* the tagged serialisation of a collection of habits.
EXTENDS Integers, Sequences, FiniteSets, TLC

\* ---------------------------------------------------------------- bounds
MaxDate == 2
MaxVal == 1

Dates == 1..MaxDate
Names == {"", "Pushups"}

\* ------------------------------------------------------------ u32 values
\* A u32 is kept at its full width as two 16-bit limbs <<high, low>>.
Limb == 2^16

U32(n) == <<n \div Limb, n % Limb>>

U32Max == <<Limb - 1, Limb - 1>>

U32Lt(a, b) == a[1] < b[1] \/ (a[1] = b[1] /\ a[2] < b[2])

U32Ge(a, b) == ~U32Lt(a, b)

\* a + b of two u32: the wrapped value and whether the sum left the width.
U32Add(a, b) ==
    LET lo == a[2] + b[2]
        hi == a[1] + b[1] + (lo \div Limb)
    IN  [val |-> <<hi % Limb, lo % Limb>>, overflow |-> hi >= Limb]

\* a - b of two u32: the wrapped value and whether the difference left the width.
U32Sub(a, b) ==
    LET lo == a[2] - b[2]
        borrow == IF lo < 0 THEN 1 ELSE 0
        hi == a[1] - b[1] - borrow
    IN  [val |-> <<(hi + Limb) % Limb, (lo + Limb) % Limb>>, overflow |-> hi < 0]

\* The counter values the model explores: the low end and the top of the range.
Vals == {U32(n) : n \in 0..MaxVal} \cup {U32Sub(U32Max, U32(1)).val, U32Max}

Goals == {U32(n) : n \in 0..MaxVal}

\* The month offsets the model passes to set_view_month_offset.
Offsets == {U32(0), U32(1)}

\* ------------------------------------------------------- supporting types
TrackEvent == {"Increment", "Decrement"}

ViewMode == {"Day", "Month", "Year"}

\* Variant of ViewMode_default.
ViewMode_default_Month == "Month"

ViewMode_default == "Day"

u32_default == U32(0)

CustomBool(b) == <<b>>

None == <<>>

Some(v) == <<v>>

\* The outcomes of a call: it returned, or it panicked before writing anything.
Returned(h) == [panic |-> FALSE, habit |-> h]

Panicked(h) == [panic |-> TRUE, habit |-> h]

\* `a + b` on u32 that overflows: a panic in a build with overflow checks, the
\* wrapped value in a build without them.
Overflowed(h, wrapped) == {Panicked(h), Returned(wrapped)}

\* HashMap::insert / entry(..).or_insert(..) followed by the assignment.
MapPut(m, k, v) == [x \in (DOMAIN m) \cup {k} |-> IF x = k THEN v ELSE m[x]]

EmptyMap == [x \in {} |-> 0]

MapRemove(m, k) == [x \in (DOMAIN m) \ {k} |-> m[x]]

VARIABLES habits, last, encoded, panicked, error

vars == <<habits, last, encoded, panicked, error>>

\* ------------------------------------------------------------------ Count
Count_new(name, goal) ==
    [variant |-> "Count", name |-> name, stats |-> EmptyMap, goal |-> goal,
     view_month_offset |-> U32(0), view_mode |-> "Day"]

Count_set_name(h, n) == [h EXCEPT !.name = n]

Count_set_goal(h, g) == [h EXCEPT !.goal = g]

Count_get_by_date(h, date) ==
    IF date \in DOMAIN h.stats THEN Some(h.stats[date]) ELSE None

\* Variant of Count_insert_entry: or_insert alone, an existing value is kept.
Count_insert_entry_OrInsert(h, date, val) ==
    IF date \in DOMAIN h.stats THEN h ELSE [h EXCEPT !.stats = MapPut(h.stats, date, val)]

Count_insert_entry(h, date, val) == [h EXCEPT !.stats = MapPut(h.stats, date, val)]

\* Variant of Count_reached_goal: the goal counts as reached only above it.
Count_reached_goal_Strict(h, date) ==
    IF date \in DOMAIN h.stats
    THEN IF U32Lt(h.goal, h.stats[date]) THEN TRUE ELSE FALSE
    ELSE FALSE

Count_reached_goal(h, date) ==
    IF date \in DOMAIN h.stats
    THEN IF U32Ge(h.stats[date], h.goal) THEN TRUE ELSE FALSE
    ELSE FALSE

\* Variant of Count_remaining: nothing remains on a date without an entry.
Count_remaining_AbsentZero(h, date) ==
    IF date \in DOMAIN h.stats
    THEN IF U32Ge(h.stats[date], h.goal)
         THEN [val |-> U32(0), overflow |-> FALSE]
         ELSE U32Sub(h.goal, h.stats[date])
    ELSE [val |-> U32(0), overflow |-> FALSE]

\* Variant of Count_remaining: the subtraction is not guarded by reached_goal.
Count_remaining_Unguarded(h, date) ==
    IF date \in DOMAIN h.stats
    THEN U32Sub(h.goal, h.stats[date])
    ELSE [val |-> h.goal, overflow |-> FALSE]

\* The value returned and whether `self.goal - val` underflowed on the way.
Count_remaining(h, date) ==
    IF Count_reached_goal(h, date)
    THEN [val |-> U32(0), overflow |-> FALSE]
    ELSE IF date \in DOMAIN h.stats
         THEN U32Sub(h.goal, h.stats[date])
         ELSE [val |-> h.goal, overflow |-> FALSE]

Count_goal(h) == h.goal

\* Variant of Count_modify: a first Decrement creates the entry at 0.
Count_modify_FirstByEvent(h, date, event) ==
    IF date \in DOMAIN h.stats
    THEN LET val == h.stats[date] IN
         IF event = "Increment"
         THEN LET sum == U32Add(val, U32(1)) IN
              IF sum.overflow
              THEN Overflowed(h, [h EXCEPT !.stats[date] = sum.val])
              ELSE {Returned([h EXCEPT !.stats[date] = sum.val])}
         ELSE IF U32Lt(U32(0), val)
              THEN {Returned([h EXCEPT !.stats[date] = U32Sub(val, U32(1)).val])}
              ELSE {Returned([h EXCEPT !.stats[date] = U32(0)])}
    ELSE {Returned(Count_insert_entry(h, date,
                      IF event = "Increment" THEN U32(1) ELSE U32(0)))}

\* Variant of Count_modify: Decrement subtracts without the floor at 0.
Count_modify_NoFloor(h, date, event) ==
    IF date \in DOMAIN h.stats
    THEN LET val == h.stats[date] IN
         IF event = "Increment"
         THEN LET sum == U32Add(val, U32(1)) IN
              IF sum.overflow
              THEN Overflowed(h, [h EXCEPT !.stats[date] = sum.val])
              ELSE {Returned([h EXCEPT !.stats[date] = sum.val])}
         ELSE {Returned([h EXCEPT !.stats[date] = U32Sub(val, U32(1)).val])}
    ELSE {Returned(Count_insert_entry(h, date, U32(1)))}

\* Variant of Count_modify: an entry decremented to 0 is removed from the map.
Count_modify_RemoveAtZero(h, date, event) ==
    IF date \in DOMAIN h.stats
    THEN LET val == h.stats[date] IN
         IF event = "Increment"
         THEN LET sum == U32Add(val, U32(1)) IN
              IF sum.overflow
              THEN Overflowed(h, [h EXCEPT !.stats[date] = sum.val])
              ELSE {Returned([h EXCEPT !.stats[date] = sum.val])}
         ELSE IF U32Lt(U32(1), val)
              THEN {Returned([h EXCEPT !.stats[date] = U32Sub(val, U32(1)).val])}
              ELSE {Returned([h EXCEPT !.stats = MapRemove(h.stats, date)])}
    ELSE {Returned(Count_insert_entry(h, date, U32(1)))}

\* Variant of Count_modify: a first touch of a date starts a fresh map.
Count_modify_FreshMap(h, date, event) ==
    IF date \in DOMAIN h.stats
    THEN LET val == h.stats[date] IN
         IF event = "Increment"
         THEN LET sum == U32Add(val, U32(1)) IN
              IF sum.overflow
              THEN Overflowed(h, [h EXCEPT !.stats[date] = sum.val])
              ELSE {Returned([h EXCEPT !.stats[date] = sum.val])}
         ELSE IF U32Lt(U32(0), val)
              THEN {Returned([h EXCEPT !.stats[date] = U32Sub(val, U32(1)).val])}
              ELSE {Returned([h EXCEPT !.stats[date] = U32(0)])}
    ELSE {Returned([h EXCEPT !.stats = MapPut(EmptyMap, date, U32(1))])}

\* The set of outcomes of the call; `*val += 1` at u32::MAX has two.
Count_modify(h, date, event) ==
    IF date \in DOMAIN h.stats
    THEN LET val == h.stats[date] IN
         IF event = "Increment"
         THEN LET sum == U32Add(val, U32(1)) IN
              IF sum.overflow
              THEN Overflowed(h, [h EXCEPT !.stats[date] = sum.val])
              ELSE {Returned([h EXCEPT !.stats[date] = sum.val])}
         ELSE IF U32Lt(U32(0), val)
              THEN {Returned([h EXCEPT !.stats[date] = U32Sub(val, U32(1)).val])}
              ELSE {Returned([h EXCEPT !.stats[date] = U32(0)])}
    ELSE {Returned(Count_insert_entry(h, date, U32(1)))}

Count_set_view_month_offset(h, offset) == [h EXCEPT !.view_month_offset = offset]

Count_view_month_offset(h) == h.view_month_offset

\* Variant of Count_set_view_mode: a change of mode returns to the current month.
Count_set_view_mode_ResetsOffset(h, mode) ==
    [h EXCEPT !.view_mode = mode, !.view_month_offset = U32(0)]

Count_set_view_mode(h, mode) == [h EXCEPT !.view_mode = mode]

Count_view_mode(h) == h.view_mode

\* -------------------------------------------------------------------- Bit
Bit_new(name) ==
    [variant |-> "Bit", name |-> name, stats |-> EmptyMap, goal |-> CustomBool(TRUE),
     view_month_offset |-> U32(0), view_mode |-> "Day"]

Bit_set_name(h, n) == [h EXCEPT !.name = n]

Bit_set_goal(h, g) == [h EXCEPT !.goal = g]

Bit_get_by_date(h, date) ==
    IF date \in DOMAIN h.stats THEN Some(h.stats[date]) ELSE None

Bit_insert_entry(h, date, val) == [h EXCEPT !.stats = MapPut(h.stats, date, val)]

\* `val.0 >= self.goal.0` on bool: false < true.
Bit_reached_goal(h, date) ==
    IF date \in DOMAIN h.stats
    THEN IF h.stats[date][1] \/ ~h.goal[1] THEN TRUE ELSE FALSE
    ELSE FALSE

\* Variant of Bit_remaining: derived from reached_goal as Count::remaining is.
Bit_remaining_ByGoal(h, date) ==
    IF Bit_reached_goal(h, date) THEN U32(0) ELSE U32(1)

Bit_remaining(h, date) ==
    IF date \in DOMAIN h.stats
    THEN IF h.stats[date][1] THEN U32(0) ELSE U32(1)
    ELSE U32(1)

\* Variant of Bit_goal: the numeric projection of the stored goal.
Bit_goal_FromField(h) == IF h.goal[1] THEN U32(1) ELSE U32(0)

Bit_goal(h) == U32(1)

\* Variant of Bit_modify: the event kind decides the value stored.
Bit_modify_ByEvent(h, date, event) ==
    {Returned(Bit_insert_entry(h, date, CustomBool(event = "Increment")))}

\* Variant of Bit_modify: `|` in place of `^`.
Bit_modify_Or(h, date, event) ==
    IF date \in DOMAIN h.stats
    THEN {Returned([h EXCEPT !.stats[date] = CustomBool(h.stats[date][1] \/ TRUE)])}
    ELSE {Returned(Bit_insert_entry(h, date, CustomBool(TRUE)))}

Bit_modify(h, date, event) ==
    IF date \in DOMAIN h.stats
    THEN {Returned([h EXCEPT !.stats[date] = CustomBool(h.stats[date][1] # TRUE)])}
    ELSE {Returned(Bit_insert_entry(h, date, CustomBool(TRUE)))}

Bit_set_view_month_offset(h, offset) == [h EXCEPT !.view_month_offset = offset]

Bit_view_month_offset(h) == h.view_month_offset

Bit_set_view_mode(h, mode) == [h EXCEPT !.view_mode = mode]

Bit_view_mode(h) == h.view_mode

\* ------------------------------------------- Habit / HabitWrapper dispatch
\* The values of a habit's HabitType that the model draws inputs from.
HabitType(h) ==
    IF h.variant = "Count" THEN Vals ELSE {CustomBool(TRUE), CustomBool(FALSE)}

GoalType(h) ==
    IF h.variant = "Count" THEN Goals ELSE {CustomBool(TRUE), CustomBool(FALSE)}

Habit_set_name(h, n) ==
    IF h.variant = "Count" THEN Count_set_name(h, n) ELSE Bit_set_name(h, n)

Habit_set_goal(h, g) ==
    IF h.variant = "Count" THEN Count_set_goal(h, g) ELSE Bit_set_goal(h, g)

Habit_get_by_date(h, date) ==
    IF h.variant = "Count" THEN Count_get_by_date(h, date) ELSE Bit_get_by_date(h, date)

Habit_insert_entry(h, date, val) ==
    IF h.variant = "Count" THEN Count_insert_entry(h, date, val)
    ELSE Bit_insert_entry(h, date, val)

Habit_reached_goal(h, date) ==
    IF h.variant = "Count" THEN Count_reached_goal(h, date) ELSE Bit_reached_goal(h, date)

HabitWrapper_remaining(h, date) ==
    IF h.variant = "Count" THEN Count_remaining(h, date).val ELSE Bit_remaining(h, date)

HabitWrapper_goal(h) ==
    IF h.variant = "Count" THEN Count_goal(h) ELSE Bit_goal(h)

HabitWrapper_modify(h, date, event) ==
    IF h.variant = "Count" THEN Count_modify(h, date, event) ELSE Bit_modify(h, date, event)

HabitWrapper_get_name(h) == h.name

HabitWrapper_set_view_month_offset(h, offset) ==
    IF h.variant = "Count" THEN Count_set_view_month_offset(h, offset)
    ELSE Bit_set_view_month_offset(h, offset)

HabitWrapper_view_month_offset(h) ==
    IF h.variant = "Count" THEN Count_view_month_offset(h) ELSE Bit_view_month_offset(h)

HabitWrapper_set_view_mode(h, mode) ==
    IF h.variant = "Count" THEN Count_set_view_mode(h, mode) ELSE Bit_set_view_mode(h, mode)

HabitWrapper_view_mode(h) ==
    IF h.variant = "Count" THEN Count_view_mode(h) ELSE Bit_view_mode(h)

\* ---------------------------------------------------------- serialisation
\* A serialised map is the set of its <<key, value>> entries.
MapEntries(m) == {<<k, m[k]>> : k \in DOMAIN m}

MapFromEntries(es) ==
    [k \in {e[1] : e \in es} |-> (CHOOSE e \in es : e[1] = k)[2]]

\* derive(Serialize) of Count under the "type" tag; the skipped fields are absent.
Count_serialize(h) ==
    [type |-> "Count", name |-> h.name, stats |-> MapEntries(h.stats), goal |-> h.goal]

\* derive(Serialize) of Bit; a CustomBool is written as its inner bool.
Bit_serialize(h) ==
    [type |-> "Bit", name |-> h.name,
     stats |-> {<<e[1], e[2][1]>> : e \in MapEntries(h.stats)}, goal |-> h.goal[1]]

HabitWrapper_serialize(h) ==
    IF h.variant = "Count" THEN Count_serialize(h) ELSE Bit_serialize(h)

\* Variant of Count_deserialize: the goal is not read back.
Count_deserialize_GoalSkipped(rec) ==
    [variant |-> "Count", name |-> rec.name, stats |-> MapFromEntries(rec.stats),
     goal |-> u32_default, view_month_offset |-> u32_default,
     view_mode |-> ViewMode_default]

\* derive(Deserialize) of Count; a skipped field takes its type's default.
Count_deserialize(rec) ==
    [variant |-> "Count", name |-> rec.name, stats |-> MapFromEntries(rec.stats),
     goal |-> rec.goal, view_month_offset |-> u32_default, view_mode |-> ViewMode_default]

Bit_deserialize(rec) ==
    [variant |-> "Bit", name |-> rec.name,
     stats |-> MapFromEntries({<<e[1], CustomBool(e[2])>> : e \in rec.stats}),
     goal |-> CustomBool(rec.goal),
     view_month_offset |-> u32_default, view_mode |-> ViewMode_default]

\* The tags registered by auto_habit_impl!(Count) and auto_habit_impl!(Bit).
KnownTags == {"Count", "Bit"}

\* Tags of records that name no registered variant.
ForeignTags == {"Streak"}

\* Variant of HabitWrapper_deserialize: an unknown tag falls back to Count.
HabitWrapper_deserialize_Fallback(rec) ==
    CASE rec.type = "Bit" -> [ok |-> TRUE, habit |-> Bit_deserialize(rec)]
      [] OTHER -> [ok |-> TRUE, habit |-> Count_deserialize(rec)]

\* The tag selects the variant to build; a tag that names none is an error.
HabitWrapper_deserialize(rec) ==
    CASE rec.type = "Count" -> [ok |-> TRUE, habit |-> Count_deserialize(rec)]
      [] rec.type = "Bit" -> [ok |-> TRUE, habit |-> Bit_deserialize(rec)]
      [] OTHER -> [ok |-> FALSE, error |-> "unknown variant"]

SerializeAll(hs) == [i \in DOMAIN hs |-> HabitWrapper_serialize(hs[i])]

DeserializeAll(recs) == [i \in DOMAIN recs |-> HabitWrapper_deserialize(recs[i])]

\* ---------------------------------------------------------------- actions
NoCall == [op |-> "new", i |-> 0, date |-> 0, event |-> "", old |-> None]

Call(op, i, date, event, old) ==
    [op |-> op, i |-> i, date |-> date, event |-> event, old |-> old]

\* The process is alive, it holds a collection and no serialised form awaits
\* loading.
Running == ~panicked /\ encoded = None /\ error = None

\* The model follows counters only through the values of Vals.
InBounds(h) ==
    h.variant = "Count" => \A d \in DOMAIN h.stats : h.stats[d] \in Vals

SetName(i, n) ==
    /\ Running
    /\ habits' = [habits EXCEPT ![i] = Habit_set_name(@, n)]
    /\ last' = Call("set_name", i, 0, "", None)
    /\ UNCHANGED <<encoded, panicked, error>>

SetGoal(i, g) ==
    /\ Running
    /\ habits' = [habits EXCEPT ![i] = Habit_set_goal(@, g)]
    /\ last' = Call("set_goal", i, 0, "", None)
    /\ UNCHANGED <<encoded, panicked, error>>

InsertEntry(i, date, val) ==
    /\ Running
    /\ habits' = [habits EXCEPT ![i] = Habit_insert_entry(@, date, val)]
    /\ last' = Call("insert_entry", i, date, "", Habit_get_by_date(habits[i], date))
    /\ UNCHANGED <<encoded, panicked, error>>

Modify(i, date, event) ==
    /\ Running
    /\ \E r \in HabitWrapper_modify(habits[i], date, event) :
          /\ InBounds(r.habit)
          /\ habits' = [habits EXCEPT ![i] = r.habit]
          /\ panicked' = r.panic
    /\ last' = Call("modify", i, date, event, Habit_get_by_date(habits[i], date))
    /\ UNCHANGED <<encoded, error>>

SetViewMonthOffset(i, offset) ==
    /\ Running
    /\ habits' = [habits EXCEPT ![i] = HabitWrapper_set_view_month_offset(@, offset)]
    /\ last' = Call("set_view_month_offset", i, 0, "", None)
    /\ UNCHANGED <<encoded, panicked, error>>

SetViewMode(i, mode) ==
    /\ Running
    /\ habits' = [habits EXCEPT ![i] = HabitWrapper_set_view_mode(@, mode)]
    /\ last' = Call("set_view_mode", i, 0, "", None)
    /\ UNCHANGED <<encoded, panicked, error>>

\* The collection is written out, one tagged record per habit.
Save ==
    /\ Running
    /\ encoded' = Some(SerializeAll(habits))
    /\ last' = Call("save", 0, 0, "", None)
    /\ UNCHANGED <<habits, panicked, error>>

\* The stored form comes back with record i under a tag that no variant
\* registered by auto_habit_impl! carries.
ForeignRecord(i, tag) ==
    /\ ~panicked
    /\ encoded # None
    /\ encoded[1][i].type \in KnownTags
    /\ encoded' = Some([encoded[1] EXCEPT ![i].type = tag])
    /\ UNCHANGED <<habits, last, panicked, error>>

\* The collection is rebuilt from the stored records; one record that fails to
\* decode fails the whole load, which then yields an error and no collection.
Load ==
    /\ ~panicked
    /\ encoded # None
    /\ LET rs == DeserializeAll(encoded[1])
           failed == {i \in DOMAIN rs : ~rs[i].ok}
       IN  IF failed = {}
           THEN /\ habits' = [i \in DOMAIN rs |-> rs[i].habit]
                /\ error' = None
           ELSE /\ habits' = <<>>
                /\ error' = Some(rs[CHOOSE i \in failed : \A j \in failed : i <= j].error)
    /\ encoded' = None
    /\ last' = Call("load", 0, 0, "", Some(habits))
    /\ UNCHANGED panicked

\* ------------------------------------------------------- specifications
\* One habit of either variant.
Init ==
    /\ habits \in {<<Count_new(n, g)>> : n \in Names, g \in Goals}
                  \cup {<<Bit_new(n)>> : n \in Names}
    /\ last = NoCall
    /\ encoded = None
    /\ panicked = FALSE
    /\ error = None

Next ==
    \E i \in DOMAIN habits :
        \/ \E n \in Names : SetName(i, n)
        \/ \E g \in GoalType(habits[i]) : SetGoal(i, g)
        \/ \E d \in Dates : \E v \in HabitType(habits[i]) : InsertEntry(i, d, v)
        \/ \E d \in Dates : \E e \in TrackEvent : Modify(i, d, e)
        \/ \E o \in Offsets : SetViewMonthOffset(i, o)
        \/ \E m \in ViewMode : SetViewMode(i, m)
        \/ Save
        \/ \E t \in ForeignTags : ForeignRecord(i, t)
        \/ Load

Spec == Init /\ [][Next]_vars

\* A mixed collection: one Count and one Bit habit, driven on one date.
MixedDates == {1}

MixedNames == {"Pushups"}

InitMixed ==
    /\ habits \in {<<Count_new(n, g), Bit_new("")>> : n \in MixedNames, g \in Goals}
    /\ last = NoCall
    /\ encoded = None
    /\ panicked = FALSE
    /\ error = None

NextMixed ==
    \E i \in DOMAIN habits :
        \/ \E n \in MixedNames : SetName(i, n)
        \/ \E g \in GoalType(habits[i]) : SetGoal(i, g)
        \/ \E d \in MixedDates : \E v \in GoalType(habits[i]) : InsertEntry(i, d, v)
        \/ \E d \in MixedDates : \E e \in TrackEvent : Modify(i, d, e)
        \/ \E o \in Offsets : SetViewMonthOffset(i, o)
        \/ \E m \in ViewMode : SetViewMode(i, m)
        \/ Save
        \/ \E t \in ForeignTags : ForeignRecord(i, t)
        \/ Load

SpecMixed == InitMixed /\ [][NextMixed]_vars

\* ----------------------------------------------------------------- claims
\* The habit the last call addressed.
Target == habits[last.i]

LastModifyOn(variant) ==
    last.op = "modify" /\ Target.variant = variant

Counters == {i \in DOMAIN habits : habits[i].variant = "Count"}

Toggles == {i \in DOMAIN habits : habits[i].variant = "Bit"}

\* C1: a modify of a Counter on a date without an entry leaves the entry at 1,
\* for Increment and for Decrement alike.
C1_AbsentModifyStoresOne ==
    (LastModifyOn("Count") /\ last.old = None)
        => Count_get_by_date(Target, last.date) = Some(U32(1))

C1_Witness ==
    /\ LastModifyOn("Count")
    /\ last.old = None
    /\ last.event = "Decrement"
    /\ Count_get_by_date(Target, last.date) = Some(U32(1))

\* C2: a Decrement of a Counter entry holding V leaves max(V - 1, 0): one less
\* than a positive V, and 0 again for V = 0, never a wrapped value.
C2_DecrementFloorsAtZero ==
    (LastModifyOn("Count") /\ last.event = "Decrement" /\ last.old # None)
        => LET V == last.old[1]
               now == Count_get_by_date(Target, last.date)
           IN  /\ now # None
               /\ V = U32(0) => now[1] = U32(0)
               /\ V # U32(0) => /\ U32Lt(now[1], V)
                                /\ U32Add(now[1], U32(1)).val = V

C2_Witness ==
    /\ LastModifyOn("Count")
    /\ last.event = "Decrement"
    /\ last.old = Some(U32(0))
    /\ Count_get_by_date(Target, last.date) = Some(U32(0))

\* C3: for every Counter and date, remaining is the goal when the date has no
\* entry, goal minus the stored value when that is below the goal and 0
\* otherwise, and computing it never underflows.
C3_RemainingClamped ==
    \A i \in Counters : \A d \in Dates :
        LET h == habits[i]
            r == Count_remaining(h, d)
        IN  /\ ~r.overflow
            /\ d \notin DOMAIN h.stats => r.val = Count_goal(h)
            /\ d \in DOMAIN h.stats =>
                 IF U32Lt(h.stats[d], Count_goal(h))
                 THEN U32Add(r.val, h.stats[d]) = [val |-> Count_goal(h), overflow |-> FALSE]
                 ELSE r.val = U32(0)

C3_Witness ==
    /\ last.op = "set_goal"
    /\ Target.variant = "Count"
    /\ \E d \in DOMAIN Target.stats :
          /\ U32Lt(Count_goal(Target), Target.stats[d])
          /\ Count_remaining(Target, d).val = U32(0)

\* C4: for every Toggle and date, reached_goal is true exactly when the stored
\* value is true (false without an entry), and a set_goal call changes the
\* result of none of goal, remaining and reached_goal.
C4_ReachedIffStoredTrue ==
    \A i \in Toggles : \A d \in Dates :
        Bit_reached_goal(habits[i], d)
            = (d \in DOMAIN habits[i].stats /\ habits[i].stats[d] = CustomBool(TRUE))

C4_SetGoalChangesNoQuery ==
    (last'.op = "set_goal" /\ habits[last'.i].variant = "Bit")
        => LET before == habits[last'.i]
               after == habits'[last'.i]
           IN  /\ Bit_goal(after) = Bit_goal(before)
               /\ \A d \in Dates :
                     /\ Bit_remaining(after, d) = Bit_remaining(before, d)
                     /\ Bit_reached_goal(after, d) = Bit_reached_goal(before, d)

C4_ToggleGoalIsInert == [](C4_ReachedIffStoredTrue) /\ [][C4_SetGoalChangesNoQuery]_vars

\* C5: an Increment of a Counter entry completes for every stored value: the
\* call does not panic and the value stored afterwards is not smaller.
C5_IncrementNeverOverflows ==
    /\ ~panicked
    /\ (LastModifyOn("Count") /\ last.event = "Increment" /\ last.old # None)
          => U32Lt(last.old[1], Target.stats[last.date])

\* C6: a modify of a Toggle stores true on a date without an entry and the
\* negation of the stored value otherwise, whatever the event.
C6_ToggleFlips ==
    LastModifyOn("Bit")
        => Bit_get_by_date(Target, last.date)
             = Some(CustomBool(IF last.old = None THEN TRUE ELSE ~last.old[1][1]))

C6_Witness ==
    /\ LastModifyOn("Bit")
    /\ last.event = "Decrement"
    /\ last.old = Some(CustomBool(TRUE))
    /\ Bit_get_by_date(Target, last.date) = Some(CustomBool(FALSE))

\* C7: for every Counter and date, reached_goal is true exactly when the date
\* has a stored value that equals or exceeds the goal.
C7_ReachedIffAtLeastGoal ==
    \A i \in Counters : \A d \in Dates :
        LET h == habits[i]
            v == Count_get_by_date(h, d)
        IN  Count_reached_goal(h, d)
              = (v # None /\ (v[1] = Count_goal(h) \/ U32Lt(Count_goal(h), v[1])))

C7_Witness ==
    \E i \in Counters : \E d, e \in Dates :
        /\ Count_goal(habits[i]) = U32(0)
        /\ Count_get_by_date(habits[i], d) = None
        /\ ~Count_reached_goal(habits[i], d)
        /\ Count_get_by_date(habits[i], e) = Some(Count_goal(habits[i]))
        /\ Count_reached_goal(habits[i], e)

\* What a habit persists: its variant, name, goal and date map.
Persisted(h) ==
    [variant |-> h.variant, name |-> HabitWrapper_get_name(h), goal |-> h.goal,
     stats |-> h.stats]

\* C8: loading what was saved (every record decoded) gives back a collection of the same length in
\* which every habit has the variant, name, goal and date map it was saved with.
C8_RoundTrip ==
    (last.op = "load" /\ error = None)
        => LET saved == last.old[1] IN
           /\ DOMAIN habits = DOMAIN saved
           /\ \A i \in DOMAIN saved : Persisted(habits[i]) = Persisted(saved[i])

C8_Witness ==
    /\ last.op = "load"
    /\ error = None
    /\ Len(habits) = 2
    /\ habits[1].variant = "Count"
    /\ habits[2].variant = "Bit"
    /\ \E d \in DOMAIN habits[1].stats : habits[1].stats[d] = U32(1)
    /\ \E d \in DOMAIN habits[2].stats : habits[2].stats[d] = CustomBool(FALSE)
    /\ habits[1].goal = U32(0)
    /\ habits[2].goal = CustomBool(FALSE)
    /\ habits[2].name = "Pushups"

\* C9: every habit of a loaded collection is at the Day view with offset 0,
\* whatever view the habit was saved with.
C9_LoadResetsView ==
    last.op = "load"
        => \A i \in DOMAIN habits :
              /\ HabitWrapper_view_mode(habits[i]) = "Day"
              /\ HabitWrapper_view_month_offset(habits[i]) = U32(0)

C9_Witness ==
    /\ last.op = "load"
    /\ \E i \in DOMAIN habits :
          /\ HabitWrapper_view_mode(last.old[1][i]) = "Year"
          /\ HabitWrapper_view_month_offset(last.old[1][i]) = U32(1)
          /\ HabitWrapper_view_mode(habits[i]) = "Day"
          /\ HabitWrapper_view_month_offset(habits[i]) = U32(0)

\* C10: no step that leaves a collection removes a date key: a date with an
\* entry before the step has an entry after it, in every habit.
C10_KeysStay ==
    error' = None => \A i \in DOMAIN habits :
        /\ i \in DOMAIN habits'
        /\ \A d \in DOMAIN habits[i].stats : Habit_get_by_date(habits'[i], d) # None

C10_KeysNeverRemoved == [][C10_KeysStay]_vars

C10_Witness ==
    /\ LastModifyOn("Count")
    /\ last.event = "Decrement"
    /\ last.old = Some(U32(1))
    /\ Count_get_by_date(Target, last.date) = Some(U32(0))

\* C11: goal() of every Toggle is 1 in every reachable state, whatever goal a
\* set_goal call has stored.
C11_ToggleGoalIsOne ==
    \A i \in Toggles : HabitWrapper_goal(habits[i]) = U32(1)

C11_Witness ==
    /\ last.op = "set_goal"
    /\ Target.variant = "Bit"
    /\ Target.goal = CustomBool(FALSE)
    /\ HabitWrapper_goal(Target) = U32(1)

\* C12: a load of stored records of which one carries an unknown tag ends in an
\* error and yields no habit at all, neither the record decoded as a known
\* variant nor the habits of the records around it.
C12_LoadedForeign ==
    /\ encoded # None
    /\ encoded' = None
    /\ \E i \in DOMAIN encoded[1] : encoded[1][i].type \notin KnownTags

C12_UnknownTagStep ==
    C12_LoadedForeign => (error' # None /\ habits' = <<>>)

C12_UnknownTagFails == [][C12_UnknownTagStep]_vars

C12_Witness ==
    /\ last.op = "load"
    /\ error = Some("unknown variant")
    /\ habits = <<>>
    /\ Len(last.old[1]) = 2
    /\ \E d \in Dates : Habit_get_by_date(last.old[1][2], d) # None

\* C13: insert_entry(d, v) on a habit of either variant leaves get_by_date(d)
\* at Some(v) whatever was stored before, and the number of entries grows by
\* one when d had no entry and stays the same otherwise.
C13_InsertStep ==
    last'.op = "insert_entry" =>
    LET i == last'.i
        d == last'.date
    IN  \A v \in HabitType(habits[i]) :
        habits'[i] = Habit_insert_entry(habits[i], d, v) =>
            /\ Habit_get_by_date(habits'[i], d) = Some(v)
            /\ Cardinality(DOMAIN habits'[i].stats)
                 = Cardinality(DOMAIN habits[i].stats)
                     + (IF Habit_get_by_date(habits[i], d) = None THEN 1 ELSE 0)

C13_InsertIsUpsert == [][C13_InsertStep]_vars

C13_Witness ==
    /\ last.op = "insert_entry"
    /\ Target.variant = "Count"
    /\ last.old = Some(U32(1))
    /\ Count_get_by_date(Target, last.date) = Some(U32(0))
    /\ Cardinality(DOMAIN Target.stats) = 1

\* C14: for every Toggle and date, remaining is 0 when the stored value is
\* true and 1 when it is false or the date has no entry.
C14_ToggleRemaining ==
    \A i \in Toggles : \A d \in Dates :
        HabitWrapper_remaining(habits[i], d)
            = (IF Bit_get_by_date(habits[i], d) = Some(CustomBool(TRUE))
               THEN U32(0) ELSE U32(1))

C14_Witness ==
    /\ LastModifyOn("Bit")
    /\ last.old = Some(CustomBool(TRUE))
    /\ Target.goal = CustomBool(FALSE)
    /\ Bit_get_by_date(Target, last.date) = Some(CustomBool(FALSE))
    /\ HabitWrapper_remaining(Target, last.date) = U32(1)

\* C15: set_view_mode(m) leaves view_mode() at m, from any mode to any mode,
\* and set_view_month_offset(n) leaves view_month_offset() at n; either call
\* leaves the habit's other view field, name, goal and date map and every other
\* habit as they were.
C15_SameButView(before, after) ==
    /\ HabitWrapper_get_name(after) = HabitWrapper_get_name(before)
    /\ after.variant = before.variant
    /\ after.goal = before.goal
    /\ after.stats = before.stats

C15_OthersSame(i) ==
    /\ DOMAIN habits' = DOMAIN habits
    /\ \A j \in DOMAIN habits : j # i => habits'[j] = habits[j]

C15_ViewStep ==
    last'.op \in {"set_view_mode", "set_view_month_offset"} =>
    LET i == last'.i IN
        /\ \A m \in ViewMode :
              SetViewMode(i, m) =>
                  /\ HabitWrapper_view_mode(habits'[i]) = m
                  /\ HabitWrapper_view_month_offset(habits'[i])
                       = HabitWrapper_view_month_offset(habits[i])
                  /\ C15_SameButView(habits[i], habits'[i])
                  /\ C15_OthersSame(i)
        /\ \A o \in Offsets :
              SetViewMonthOffset(i, o) =>
                  /\ HabitWrapper_view_month_offset(habits'[i]) = o
                  /\ HabitWrapper_view_mode(habits'[i]) = HabitWrapper_view_mode(habits[i])
                  /\ C15_SameButView(habits[i], habits'[i])
                  /\ C15_OthersSame(i)

C15_ViewAccessors == [][C15_ViewStep]_vars

C15_Witness ==
    /\ last.op = "set_view_mode"
    /\ Len(habits) = 2
    /\ last.i = 1
    /\ HabitWrapper_view_mode(habits[1]) = "Year"
    /\ HabitWrapper_view_month_offset(habits[1]) = U32(1)
    /\ HabitWrapper_view_mode(habits[2]) = "Month"
    /\ HabitWrapper_view_month_offset(habits[2]) = U32(0)
    /\ DOMAIN habits[1].stats # {}

\* C16: modify(d, e) on a habit of either variant, with either event, leaves
\* the entry (or its absence) of every other date, the habit's name, goal, view
\* mode and month offset as they were.
C16_ModifyStep ==
    last'.op = "modify" =>
    LET i == last'.i
        d == last'.date
    IN  \A e \in TrackEvent :
        Modify(i, d, e) =>
            /\ \A x \in Dates \ {d} :
                  Habit_get_by_date(habits'[i], x) = Habit_get_by_date(habits[i], x)
            /\ HabitWrapper_get_name(habits'[i]) = HabitWrapper_get_name(habits[i])
            /\ habits'[i].goal = habits[i].goal
            /\ HabitWrapper_view_mode(habits'[i]) = HabitWrapper_view_mode(habits[i])
            /\ HabitWrapper_view_month_offset(habits'[i])
                 = HabitWrapper_view_month_offset(habits[i])

C16_ModifyTouchesOneDate == [][C16_ModifyStep]_vars

C16_Witness ==
    /\ last.op = "modify"
    /\ last.old = None
    /\ \E x \in Dates \ {last.date} : Habit_get_by_date(Target, x) # None
    /\ HabitWrapper_view_mode(Target) = "Month"
    /\ HabitWrapper_view_month_offset(Target) = U32(1)

\* C17 as claimed: for every Counter and date, remaining is 0 exactly when
\* reached_goal is true.
C17_RemainingZeroIffReached ==
    \A i \in Counters : \A d \in Dates :
        (Count_remaining(habits[i], d).val = U32(0)) = Count_reached_goal(habits[i], d)

\* C17 as amended: for every Counter and date, remaining is 0 exactly when
\* reached_goal is true or the goal is 0 and the date has no entry.
C17_RemainingZeroIffReachedOrIdle ==
    \A i \in Counters : \A d \in Dates :
        (Count_remaining(habits[i], d).val = U32(0))
            = \/ Count_reached_goal(habits[i], d)
              \/ /\ Count_goal(habits[i]) = U32(0)
                 /\ Count_get_by_date(habits[i], d) = None

C17_Witness ==
    \E i \in Counters : \E d, x \in Dates :
        /\ Count_goal(habits[i]) = U32(0)
        /\ Count_get_by_date(habits[i], d) = None
        /\ Count_remaining(habits[i], d).val = U32(0)
        /\ ~Count_reached_goal(habits[i], d)
        /\ Count_get_by_date(habits[i], x) # None
        /\ Count_remaining(habits[i], x).val = U32(0)
        /\ Count_reached_goal(habits[i], x)

\* C18: a modify of a Toggle entry followed by a second modify of the same date,
\* with any events, gives back the value stored before the first; after a
\* first modify of a date without an entry the second leaves a stored false.
C18_SecondModify(e) ==
    {Bit_get_by_date(r.habit, last.date) : r \in Bit_modify(Target, last.date, e)}

C18_ToggleInvolution ==
    LastModifyOn("Bit")
        => \A e \in TrackEvent :
              C18_SecondModify(e)
                = {IF last.old = None THEN Some(CustomBool(FALSE)) ELSE last.old}

C18_Witness ==
    /\ LastModifyOn("Bit")
    /\ last.event = "Increment"
    /\ last.old = Some(CustomBool(FALSE))
    /\ Bit_get_by_date(Target, last.date) = Some(CustomBool(TRUE))
    /\ C18_SecondModify("Decrement") = {Some(CustomBool(FALSE))}

====
